---- MODULE Spec2Model ----
(***************************************************************************)
(* Tool proxy: tool cache (ToolCache), backend connection pool             *)
(* (BackendPool), search delegation (extractToolReferences) and the        *)
(* request handler for search_tools / call_tool, with process startup      *)
(* (runServer) and the SIGINT / SIGTERM shutdown handlers.                 *)
(*                                                                         *)
(* Strings that the code concatenates or compares (backend names, tool     *)
(* names, prefixed names) are sequences of one-character strings, so that  *)
(* `${serverName}__${tool.name}` is a real concatenation.  A JavaScript    *)
(* Map is a sequence of [key, value] entries in insertion order.  An       *)
(* optional value is a sequence of length 0 (absent) or 1 (present).       *)
(***************************************************************************)
EXTENDS Integers, Sequences, FiniteSets, TLC

\* ------------------------------------------------------------------ bounds
MaxBackends == 2
MaxTools == 2
MaxRequests == 1
MaxBlocks == 2
MaxRefs == 2

\* ------------------------------------------------------- program constants
DefaultMaxResults == 5
DescriptionLimit == 200

\* ------------------------------------------------------------ input alphabets
Sep == <<"_", "_">>
ServerNames == { <<"a">>, <<"a", "_", "_", "b">> }
ToolNames == { <<"x">>, <<"b", "_", "_", "x">> }

Absent == <<>>
Some(v) == <<v>>
IsAbsent(o) == Len(o) = 0
Val(o) == o[1]

\* sequences over S of length at most n
RECURSIVE SeqsUpTo(_, _)
SeqsUpTo(S, n) ==
    IF n = 0 THEN { <<>> }
    ELSE LET shorter == SeqsUpTo(S, n - 1)
         IN shorter \cup { Append(s, e) : s \in { t \in shorter : Len(t) = n - 1 }, e \in S }

Range(s) == { s[i] : i \in 1..Len(s) }

\* sequences over S of length at most n without repeated elements
DistinctSeqsUpTo(S, n) == { s \in SeqsUpTo(S, n) : Cardinality(Range(s)) = Len(s) }

\* Array.prototype.slice(0, n) for an integer n >= 0
Slice0(s, n) == SubSeq(s, 1, IF n < Len(s) THEN n ELSE Len(s))

\* String.prototype.includes on character sequences
Contains(text, part) ==
    \E i \in 1..(Len(text) + 1) :
        /\ i + Len(part) - 1 <= Len(text)
        /\ SubSeq(text, i, i + Len(part) - 1) = part

\* ------------------------------------------------------------------ Map
MapKeys(m) == { m[i].key : i \in 1..Len(m) }
MapHas(m, k) == k \in MapKeys(m)
MapIndex(m, k) == CHOOSE i \in 1..Len(m) : m[i].key = k
MapGet(m, k) == m[MapIndex(m, k)].value
\* mutant: setting an existing key moves it to the end
MapSet_moveToEnd(m, k, v) ==
    Append(SelectSeq(m, LAMBDA e : e.key # k), [key |-> k, value |-> v])

\* mutant: an existing key keeps its first value
MapSet_keepFirst(m, k, v) ==
    IF MapHas(m, k) THEN m ELSE Append(m, [key |-> k, value |-> v])

\* Map.prototype.set: an existing key keeps its position, a new key is appended
MapSet(m, k, v) ==
    IF MapHas(m, k)
    THEN [m EXCEPT ![MapIndex(m, k)] = [key |-> k, value |-> v]]
    ELSE Append(m, [key |-> k, value |-> v])
MapValues(m) == [i \in 1..Len(m) |-> m[i].value]
MapKeySeq(m) == [i \in 1..Len(m) |-> m[i].key]

\* ------------------------------------------------------------ ToolCache
\* mutant: a single underscore as separator
PrefixedName_single(serverName, toolName) == serverName \o <<"_">> \o toolName

\* `${serverName}__${tool.name}`
PrefixedName(serverName, toolName) == serverName \o Sep \o toolName

CachedTool(serverName, tool) ==
    [ serverName   |-> serverName,
      originalName |-> tool.name,
      prefixedName |-> PrefixedName(serverName, tool.name),
      definition   |-> [tool EXCEPT !.name = PrefixedName(serverName, tool.name)] ]

RECURSIVE addFromServer(_, _, _)
addFromServer(cache, serverName, toolDefs) ==
    IF toolDefs = <<>> THEN cache
    ELSE addFromServer(
            MapSet(cache, PrefixedName(serverName, Head(toolDefs).name),
                   CachedTool(serverName, Head(toolDefs))),
            serverName, Tail(toolDefs))

HasDescription(definition) == definition.description # <<>>
\* mutant: tools without a description are left out
getAllDefinitions_described(cache) ==
    SelectSeq([i \in 1..Len(cache) |-> cache[i].value.definition], HasDescription)

getAllDefinitions(cache) == [i \in 1..Len(cache) |-> cache[i].value.definition]

\* ToolCache.get: Some(CachedTool) or Absent (undefined)
get(cache, prefixedName) ==
    IF MapHas(cache, prefixedName) THEN Some(MapGet(cache, prefixedName)) ELSE Absent

\* mutant: the route carries the prefixed name instead of the original one
getRoute_prefixedTool(cache, prefixedName) ==
    IF ~MapHas(cache, prefixedName) THEN Absent
    ELSE Some([ server |-> MapGet(cache, prefixedName).serverName,
                tool   |-> MapGet(cache, prefixedName).prefixedName ])

\* ToolCache.getRoute: Some(ToolRoute) or Absent (undefined)
getRoute(cache, prefixedName) ==
    IF ~MapHas(cache, prefixedName) THEN Absent
    ELSE Some([ server |-> MapGet(cache, prefixedName).serverName,
                tool   |-> MapGet(cache, prefixedName).originalName ])

size(cache) == Len(cache)
getToolNames(cache) == MapKeySeq(cache)
\* BackendPool.getConnectedServers
getConnectedServers(cl) == MapKeySeq(cl)
\* ToolCache.clear
clear(cache) == <<>>

\* ------------------------------------------------------ backends (environment)
\* What a backend answers to listTools: description and inputSchema may be
\* missing from a listed tool.
RawTool(n) ==
    [ name        |-> n,
      description |-> IF n = <<"x">> THEN Some(<<"d">> \o n) ELSE Absent,
      inputSchema |-> IF n = <<"x">> THEN Some("schema") ELSE Absent ]

\* tools.map(...) of connectServer
ToToolDefinition(raw) ==
    [ name         |-> raw.name,
      description  |-> IF IsAbsent(raw.description) THEN <<>> ELSE Val(raw.description),
      input_schema |-> IF IsAbsent(raw.inputSchema) THEN "empty_object_schema"
                       ELSE Val(raw.inputSchema) ]

ToToolDefinitions(raws) == [i \in 1..Len(raws) |-> ToToolDefinition(raws[i])]

\* One declared backend and how its server behaves: the connection opens or
\* not, tool enumeration answers or not, and the tool names it lists.
BackendBehaviours ==
    { [name |-> n, outcome |-> "ok", tools |-> ts] :
          n \in ServerNames, ts \in DistinctSeqsUpTo(ToolNames, MaxTools) }
    \cup
    { [name |-> n, outcome |-> o, tools |-> <<>>] :
          n \in ServerNames, o \in {"connect_fails", "list_fails"} }

\* Object.entries(config.backends): the keys of a JSON object are distinct
Configs ==
    { c \in SeqsUpTo(BackendBehaviours, MaxBackends) :
          \A i, j \in 1..Len(c) : i # j => c[i].name # c[j].name }

VARIABLES
    backends,    \* the configuration file's backends and how their servers behave
    config,      \* initialize's parsed config.backends entries, <<>> until parsed
    pc,          \* position of runServer / BackendPool.initialize
    idx,         \* index in config of the backend being attempted
    tools,       \* ToolCache.tools
    clients,     \* BackendPool.clients: entries [key |-> serverName, value |-> conn]
    conns,       \* per config index: the Client created for that backend
    handlers,    \* per signal: position of its shutdown handler inside close()
    reqs,        \* per request slot: the CallToolRequest being handled
    exited       \* process.exit has been called

vars == <<backends, config, pc, idx, tools, clients, conns, handlers, reqs, exited>>

Signals == {"SIGINT", "SIGTERM"}
Slots == 1..MaxRequests

NoConn == [state |-> "none", closeCalls |-> 0]
IdleHandler == [pc |-> "idle", pos |-> 0, caught |-> 0]
NoArgs == [query |-> Absent, max_results |-> Absent, tool_name |-> Absent, arguments |-> Absent]
NewRequest ==
    [ pc |-> "new", name |-> "", args |-> Absent,
      searches |-> <<>>, calls |-> <<>>, reply |-> Absent, out |-> Absent ]

Init ==
    /\ backends \in Configs
    /\ config = <<>>
    /\ pc = "load"
    /\ idx = 0
    /\ tools = <<>>
    /\ clients = <<>>
    /\ conns = [i \in 1..Len(backends) |-> NoConn]
    /\ handlers = [s \in Signals |-> IdleHandler]
    /\ reqs = [r \in Slots |-> NewRequest]
    /\ exited = FALSE

\* ------------------------------------------------- runServer / initialize
\* Some close() has returned: its handler's next statement is process.exit(0),
\* which runs before any further completion of an awaited connect, listTools
\* or connection close is delivered.
closeReturned == \E s \in Signals : handlers[s].pc = "returned"

Starting == ~exited /\ ~closeReturned

\* the for loop of initialize moves to the next entry, or initialize returns
NextAttempt(entries, i) ==
    IF i < Len(entries) THEN /\ pc' = "connect" /\ idx' = i + 1
    ELSE /\ pc' = "start" /\ idx' = 0

\* readFile + JSON.parse succeed and the loop calls connectServer for the
\* first entry, which runs up to `await client.connect(transport)`
LoadConfig ==
    /\ Starting /\ pc = "load"
    /\ config' = backends
    /\ NextAttempt(backends, 0)
    /\ UNCHANGED <<backends, tools, clients, conns, handlers, reqs, exited>>

\* mutant: a configuration that cannot be loaded ends the process
LoadConfigFails_abort ==
    /\ Starting /\ pc = "load"
    /\ exited' = TRUE
    /\ UNCHANGED <<backends, config, pc, idx, tools, clients, conns, handlers, reqs>>

\* readFile or JSON.parse throws: initialize rejects, runServer logs a warning
LoadConfigFails ==
    /\ Starting /\ pc = "load"
    /\ pc' = "start" /\ idx' = 0
    /\ UNCHANGED <<backends, config, tools, clients, conns, handlers, reqs, exited>>

\* mutant: a failed connection ends the loop of initialize
ConnectSettles_abort ==
    /\ Starting /\ pc = "connect"
    /\ IF backends[idx].outcome = "connect_fails"
       THEN /\ pc' = "start" /\ idx' = 0
            /\ UNCHANGED conns
       ELSE /\ conns' = [conns EXCEPT ![idx].state = "open"]
            /\ pc' = "list"
            /\ UNCHANGED idx
    /\ UNCHANGED <<backends, config, tools, clients, handlers, reqs, exited>>

\* `await client.connect(transport)` settles: on failure the catch of
\* initialize logs it and the loop goes on; on success connectServer goes on
\* to `await client.listTools()`
ConnectSettles ==
    /\ Starting /\ pc = "connect"
    /\ IF backends[idx].outcome = "connect_fails"
       THEN /\ NextAttempt(config, idx)
            /\ UNCHANGED conns
       ELSE /\ conns' = [conns EXCEPT ![idx].state = "open"]
            /\ pc' = "list"
            /\ UNCHANGED idx
    /\ UNCHANGED <<backends, config, tools, clients, handlers, reqs, exited>>

\* the cache and pool updates of connectServer after listTools has answered
connectServerCache(cache, i) ==
    addFromServer(cache, config[i].name,
                  ToToolDefinitions([k \in 1..Len(backends[i].tools) |-> RawTool(backends[i].tools[k])]))

\* mutant: the client is not retained
connectServerClients_none(cl, i) == cl

connectServerClients(cl, i) == MapSet(cl, config[i].name, i)

\* mutant: the client is retained before its tools are listed
ListToolsSettles_poolFirst ==
    /\ Starting /\ pc = "list"
    /\ clients' = connectServerClients(clients, idx)
    /\ IF backends[idx].outcome = "list_fails"
       THEN UNCHANGED tools
       ELSE tools' = connectServerCache(tools, idx)
    /\ NextAttempt(config, idx)
    /\ UNCHANGED <<backends, config, conns, handlers, reqs, exited>>

\* `await client.listTools()` settles: on failure the catch of initialize logs
\* it; on success the tools are cached and the client is retained, with no
\* await in between
ListToolsSettles ==
    /\ Starting /\ pc = "list"
    /\ IF backends[idx].outcome = "list_fails"
       THEN UNCHANGED <<tools, clients>>
       ELSE /\ tools' = connectServerCache(tools, idx)
            /\ clients' = connectServerClients(clients, idx)
    /\ NextAttempt(config, idx)
    /\ UNCHANGED <<backends, config, conns, handlers, reqs, exited>>

\* initialize has returned or thrown; `await server.connect(transport)`
StartServer ==
    /\ Starting /\ pc = "start"
    /\ pc' = "serving"
    /\ UNCHANGED <<backends, config, idx, tools, clients, conns, handlers, reqs, exited>>

\* ------------------------------------------------------ BackendPool.close
\* backend.client.close() is called on the connection of clients entry p
InvokeClose(cs, p) ==
    [cs EXCEPT ![clients[p].value] =
        [state |-> "closed", closeCalls |-> cs[clients[p].value].closeCalls + 1]]

\* mutant: close() returns without this.clients.clear()
CloseFrom_noClear(s, p, c) ==
    IF p <= Len(clients)
    THEN /\ conns' = InvokeClose(conns, p)
         /\ handlers' = [handlers EXCEPT ![s] = [pc |-> "closing", pos |-> p, caught |-> c]]
         /\ UNCHANGED clients
    ELSE /\ handlers' = [handlers EXCEPT ![s] = [pc |-> "returned", pos |-> 0, caught |-> c]]
         /\ UNCHANGED <<clients, conns>>

\* close() runs from entry p of the live Map iteration to its next await, or
\* to this.clients.clear() and its return, having caught c rejected closes
\* so far.  clear() restarts every iteration still in progress at the first
\* entry added afterwards.
CloseFrom(s, p, c) ==
    IF p <= Len(clients)
    THEN /\ conns' = InvokeClose(conns, p)
         /\ handlers' = [handlers EXCEPT ![s] = [pc |-> "closing", pos |-> p, caught |-> c]]
         /\ UNCHANGED clients
    ELSE /\ clients' = <<>>
         /\ handlers' = [h \in Signals |->
                            IF h = s THEN [pc |-> "returned", pos |-> 0, caught |-> c]
                            ELSE IF handlers[h].pc = "closing"
                                 THEN [handlers[h] EXCEPT !.pos = 0]
                                 ELSE handlers[h]]
         /\ UNCHANGED conns

\* process.on(s): the handler calls backendPool.close()
Signal(s) ==
    /\ Starting /\ handlers[s].pc = "idle"
    /\ CloseFrom(s, 1, 0)
    /\ UNCHANGED <<backends, config, pc, idx, tools, reqs, exited>>

\* mutant: a rejected close leaves close() through its caller
CloseSettles_propagates(s) ==
    /\ Starting /\ handlers[s].pc = "closing"
    /\ \/ CloseFrom(s, handlers[s].pos + 1, handlers[s].caught)
       \/ /\ handlers' = [handlers EXCEPT ![s].pc = "threw"]
          /\ UNCHANGED <<clients, conns>>
    /\ UNCHANGED <<backends, config, pc, idx, tools, reqs, exited>>

\* the awaited backend.client.close() settles and the loop goes on: it
\* resolved, or it rejected and the catch logged the error
CloseSettles(s) ==
    /\ Starting /\ handlers[s].pc = "closing"
    /\ \E rejected \in BOOLEAN :
          CloseFrom(s, handlers[s].pos + 1, handlers[s].caught + (IF rejected THEN 1 ELSE 0))
    /\ UNCHANGED <<backends, config, pc, idx, tools, reqs, exited>>

\* `await backendPool.close()` is over: process.exit(0)
Exit(s) ==
    /\ ~exited /\ handlers[s].pc = "returned"
    /\ exited' = TRUE
    /\ UNCHANGED <<backends, config, pc, idx, tools, clients, conns, handlers, reqs>>

\* ------------------------------------------------------- request handler
PlainText(chars) == [plain |-> chars]
\* JSON.stringify(v, null, 2): the text that serializes v
JsonText(v) == [json |-> v]

TextResult(text) == [content |-> <<[type |-> "text", text |-> text]>>, isError |-> FALSE]
ErrorResult(chars) == [content |-> <<[type |-> "text", text |-> PlainText(chars)]>>, isError |-> TRUE]

QueryRequired == ErrorResult(<<"Error: query parameter is required">>)
ToolNameRequired == ErrorResult(<<"Error: tool_name parameter is required">>)
\* mutant: the empty-cache payload is flagged as an error
NoToolsAvailable_asError ==
    [ content |-> <<[type |-> "text",
                     text |-> [json |-> [ error |-> <<"No tools available. Backend servers may not be connected.">>,
                                          tool_references |-> <<>> ]]]>>,
      isError |-> TRUE ]

NoToolsAvailable ==
    TextResult(JsonText([ error |-> <<"No tools available. Backend servers may not be connected.">>,
                          tool_references |-> <<>> ]))
\* mutant: the message does not quote the name
UnknownTool_noName(tool_name) ==
    ErrorResult(<<"Error: Unknown tool. Use search_tools to find available tools.">>)

UnknownTool(tool_name) ==
    ErrorResult(<<"Error: Unknown tool \"">> \o tool_name
                \o <<"\". Use search_tools to find available tools.">>)
UnknownOperation(name) == ErrorResult(<<"Unknown tool: ", name>>)
SearchFailed(message) == ErrorResult(<<"Error searching tools: ">> \o message)
CallFailed(message) == ErrorResult(<<"Error calling tool: ">> \o message)

\* messages of the errors thrown below the handler
DestructureError == <<"Cannot destructure property of undefined">>
NotIterableError == <<"response.content is not iterable">>
SearchServiceError == <<"search service failure">>
BackendCallError == <<"backend call failure">>
BackendNotFound(serverName) == <<"Backend server not found: ">> \o serverName

\* a string that is undefined or "" is falsy
Falsy(optString) == IsAbsent(optString) \/ Val(optString) = <<>>

\* ---- inputs of the two operations
Queries == { Absent, Some(<<>>), Some(<<"q">>) }
MaxResultsInputs == { Absent, Some(0), Some(1), Some(2) }
InvokeNames == { PrefixedName(<<"a">>, <<"x">>), PrefixedName(<<"a">>, <<"b", "_", "_", "x">>), <<"x">> }
ToolNameInputs == { Absent, Some(<<>>) } \cup { Some(n) : n \in InvokeNames }
ArgumentInputs == { Absent, Some({}), Some({"k"}) }

SearchArgs == { [NoArgs EXCEPT !.query = q, !.max_results = m] : q \in Queries, m \in MaxResultsInputs }
CallArgs == { [NoArgs EXCEPT !.tool_name = t, !.arguments = a] : t \in ToolNameInputs, a \in ArgumentInputs }

\* ---- the external search capability
\* invokeWithToolSearch: the tool list of the request body
SearchRequestTools(allTools, searchType) ==
    <<[type |-> searchType, name |-> <<searchType>>, defer_loading |-> FALSE]>>
    \o [i \in 1..Len(allTools) |->
            [type |-> "custom", name |-> allTools[i].name, defer_loading |-> TRUE]]

SearchRequest(query, allTools, searchType) ==
    [ messages |-> <<[role |-> "user", content |-> <<[type |-> "text", text |-> query]>>]>>,
      tools    |-> SearchRequestTools(allTools, searchType) ]

\* what the service may answer: tool_name <<>> stands for a reference whose
\* tool_name is missing or empty
RefNames == { <<>>, PrefixedName(<<"a">>, <<"x">>), <<"z">> }
RefLists == SeqsUpTo({ [type |-> "tool_reference", tool_name |-> n] : n \in RefNames }, MaxRefs)
Blocks ==
    { [type |-> "text", content |-> Absent],
      [type |-> "tool_search_tool_result", content |-> Absent] }
    \cup { [type |-> "tool_search_tool_result", content |-> Some([tool_references |-> rs])] :
              rs \in RefLists }
SearchResponses ==
    { [content |-> Absent] } \cup { [content |-> Some(bs)] : bs \in SeqsUpTo(Blocks, MaxBlocks) }

Ref(n) == [type |-> "tool_reference", tool_name |-> n]
SearchResult(names) ==
    [ type |-> "tool_search_tool_result",
      content |-> Some([tool_references |-> [i \in 1..Len(names) |-> Ref(names[i])]]) ]
\* a few of the answers above
CoreResponses ==
    { [content |-> Absent],
      [content |-> Some(<<>>)],
      [content |-> Some(<<[type |-> "text", content |-> Absent],
                          SearchResult(<<PrefixedName(<<"a">>, <<"x">>), <<"z">>>>)>>)] }

\* the tool names one block contributes
RECURSIVE RefNamesOf(_)
RefNamesOf(refs) ==
    IF refs = <<>> THEN <<>>
    ELSE (IF Head(refs).tool_name # <<>> THEN <<Head(refs).tool_name>> ELSE <<>>)
         \o RefNamesOf(Tail(refs))

BlockRefs(block) ==
    IF block.type = "tool_search_tool_result" /\ ~IsAbsent(block.content)
    THEN RefNamesOf(Val(block.content).tool_references)
    ELSE <<>>

RECURSIVE CollectRefs(_)
CollectRefs(blocks) ==
    IF blocks = <<>> THEN <<>> ELSE BlockRefs(Head(blocks)) \o CollectRefs(Tail(blocks))

\* mutant: the last maxResults references are kept
extractToolReferences_last(response, maxResults) ==
    SubSeq(CollectRefs(Val(response.content)),
           IF Len(CollectRefs(Val(response.content))) > maxResults
           THEN Len(CollectRefs(Val(response.content))) - maxResults + 1 ELSE 1,
           Len(CollectRefs(Val(response.content))))

\* extractToolReferences(response, maxResults), for a response with content
extractToolReferences(response, maxResults) ==
    Slice0(CollectRefs(Val(response.content)), maxResults)

\* max_results || 5
EffectiveMaxResults(max_results) ==
    IF IsAbsent(max_results) \/ Val(max_results) = 0 THEN DefaultMaxResults ELSE Val(max_results)

\* the name and brief description returned for one reference
Enrich(cache, ref) ==
    [ name |-> ref,
      description |-> IF IsAbsent(get(cache, ref)) THEN <<>>
                      ELSE Slice0(Val(get(cache, ref)).definition.description, DescriptionLimit) ]

SearchPayload(cache, toolRefs, query, total) ==
    [ tool_references |-> toolRefs,
      tools |-> [i \in 1..Len(toolRefs) |-> Enrich(cache, toolRefs[i])],
      query |-> query,
      total_tools_available |-> total ]

\* ---- search_tools
Finish(r, request, out) ==
    reqs' = [reqs EXCEPT ![r] = [request EXCEPT !.pc = "done", !.out = Some(out)]]

Serving == ~exited /\ pc = "serving"
Free(r) == reqs[r].pc \in {"new", "done"}

\* mutant: the empty cache is looked at before the query
SearchTools_cacheFirst(r, args) ==
    LET request == [NewRequest EXCEPT !.name = "search_tools", !.args = args]
    IN  IF IsAbsent(args) THEN Finish(r, request, SearchFailed(DestructureError))
        ELSE IF Len(getAllDefinitions(tools)) = 0 THEN Finish(r, request, NoToolsAvailable)
        ELSE IF Falsy(Val(args).query) THEN Finish(r, request, QueryRequired)
        ELSE reqs' = [reqs EXCEPT ![r] =
                [request EXCEPT !.pc = "searching",
                                !.searches = <<SearchRequest(Val(Val(args).query),
                                                             getAllDefinitions(tools),
                                                             "tool_search_tool_regex")>>]]

\* the handler runs from the request's arrival to its first await or return
SearchTools(r, args) ==
    LET request == [NewRequest EXCEPT !.name = "search_tools", !.args = args]
    IN  IF IsAbsent(args) THEN Finish(r, request, SearchFailed(DestructureError))
        ELSE IF Falsy(Val(args).query) THEN Finish(r, request, QueryRequired)
        ELSE IF Len(getAllDefinitions(tools)) = 0 THEN Finish(r, request, NoToolsAvailable)
        ELSE reqs' = [reqs EXCEPT ![r] =
                [request EXCEPT !.pc = "searching",
                                !.searches = <<SearchRequest(Val(Val(args).query),
                                                             getAllDefinitions(tools),
                                                             "tool_search_tool_regex")>>]]

SearchToolsArrives(r) ==
    /\ Serving /\ Free(r)
    /\ \E args \in {Absent} \cup { Some(a) : a \in SearchArgs } : SearchTools(r, args)
    /\ UNCHANGED <<backends, config, pc, idx, tools, clients, conns, handlers, exited>>

\* mutant: a response without content escapes the handler
SearchToolsResponse_throws(r, response) ==
    IF IsAbsent(response.content)
    THEN reqs' = [reqs EXCEPT ![r] = [reqs[r] EXCEPT !.pc = "threw", !.reply = Some(response)]]
    ELSE Finish(r, [reqs[r] EXCEPT !.reply = Some(response)],
            TextResult(JsonText(SearchPayload(
                tools,
                extractToolReferences(response, EffectiveMaxResults(Val(reqs[r].args).max_results)),
                Val(Val(reqs[r].args).query),
                Len(getAllDefinitions(tools))))))

\* `await invokeWithToolSearch(...)` settles with this response
SearchToolsResponse(r, response) ==
    IF IsAbsent(response.content)
    THEN Finish(r, [reqs[r] EXCEPT !.reply = Some(response)], SearchFailed(NotIterableError))
    ELSE Finish(r, [reqs[r] EXCEPT !.reply = Some(response)],
            TextResult(JsonText(SearchPayload(
                tools,
                extractToolReferences(response, EffectiveMaxResults(Val(reqs[r].args).max_results)),
                Val(Val(reqs[r].args).query),
                Len(getAllDefinitions(tools))))))

SearchSettles(r, responses) ==
    /\ ~exited /\ reqs[r].pc = "searching"
    /\ \/ Finish(r, reqs[r], SearchFailed(SearchServiceError))
       \/ \E response \in responses : SearchToolsResponse(r, response)
    /\ UNCHANGED <<backends, config, pc, idx, tools, clients, conns, handlers, exited>>

\* ---- call_tool
BackendResults ==
    { [content |-> <<[type |-> "text", text |-> PlainText(<<"ok">>)]>>, isError |-> FALSE],
      [content |-> <<[type |-> "text", text |-> PlainText(<<"failed">>)]>>, isError |-> TRUE] }

\* toolArgs || {}
EffectiveArguments(toolArgs) == IF IsAbsent(toolArgs) THEN {} ELSE Val(toolArgs)

\* mutant: the prefixed name is forwarded to the backend
callTool_prefixed(request, serverName, toolName, args) ==
    IF ~MapHas(clients, serverName)
    THEN [request EXCEPT !.pc = "done", !.out = Some(CallFailed(BackendNotFound(serverName)))]
    ELSE [request EXCEPT !.pc = "calling",
                         !.calls = <<[conn |-> MapGet(clients, serverName),
                                      name |-> PrefixedName(serverName, toolName),
                                      arguments |-> args]>>]

\* BackendPool.callTool up to its await: the call sent on the backend's
\* connection, if the backend is in the pool
callTool(request, serverName, toolName, args) ==
    IF ~MapHas(clients, serverName)
    THEN [request EXCEPT !.pc = "done", !.out = Some(CallFailed(BackendNotFound(serverName)))]
    ELSE [request EXCEPT !.pc = "calling",
                         !.calls = <<[conn |-> MapGet(clients, serverName),
                                      name |-> toolName, arguments |-> args]>>]

CallTool(r, args) ==
    LET request == [NewRequest EXCEPT !.name = "call_tool", !.args = args]
    IN  IF IsAbsent(args) THEN Finish(r, request, CallFailed(DestructureError))
        ELSE IF Falsy(Val(args).tool_name) THEN Finish(r, request, ToolNameRequired)
        ELSE IF IsAbsent(getRoute(tools, Val(Val(args).tool_name)))
             THEN Finish(r, request, UnknownTool(Val(Val(args).tool_name)))
        ELSE reqs' = [reqs EXCEPT ![r] =
                callTool(request,
                         Val(getRoute(tools, Val(Val(args).tool_name))).server,
                         Val(getRoute(tools, Val(Val(args).tool_name))).tool,
                         EffectiveArguments(Val(args).arguments))]

CallToolArrives(r) ==
    /\ Serving /\ Free(r)
    /\ \E args \in {Absent} \cup { Some(a) : a \in CallArgs } : CallTool(r, args)
    /\ UNCHANGED <<backends, config, pc, idx, tools, clients, conns, handlers, exited>>

\* the text returned for the backend's result
CallToolOutput(result) == TextResult(JsonText(result))

\* mutant: a backend whose call was rejected is dropped from the pool
CallSettles_evicts(r) ==
    /\ ~exited /\ reqs[r].pc = "calling"
    /\ \/ /\ Finish(r, reqs[r], CallFailed(BackendCallError))
          /\ clients' = SelectSeq(clients, LAMBDA e : e.value # reqs[r].calls[1].conn)
       \/ /\ \E result \in BackendResults :
                Finish(r, [reqs[r] EXCEPT !.reply = Some(result)], CallToolOutput(result))
          /\ UNCHANGED clients
    /\ UNCHANGED <<backends, config, pc, idx, tools, conns, handlers, exited>>

\* `await backend.client.callTool(...)` settles: a result, or a rejection
CallSettles(r) ==
    /\ ~exited /\ reqs[r].pc = "calling"
    /\ \/ Finish(r, reqs[r], CallFailed(BackendCallError))
       \/ \E result \in BackendResults :
             Finish(r, [reqs[r] EXCEPT !.reply = Some(result)], CallToolOutput(result))
    /\ UNCHANGED <<backends, config, pc, idx, tools, clients, conns, handlers, exited>>

\* ---- a request that names neither operation
OtherArrives(r) ==
    /\ Serving /\ Free(r)
    /\ Finish(r, [NewRequest EXCEPT !.name = "other_tool"], UnknownOperation("other_tool"))
    /\ UNCHANGED <<backends, config, pc, idx, tools, clients, conns, handlers, exited>>

Lifecycle ==
    \/ LoadConfig
    \/ LoadConfigFails
    \/ ConnectSettles
    \/ ListToolsSettles
    \/ StartServer
    \/ \E s \in Signals : Signal(s)
    \/ \E s \in Signals : CloseSettles(s)
    \/ \E s \in Signals : Exit(s)

Arrivals ==
    \/ \E r \in DOMAIN reqs : SearchToolsArrives(r)
    \/ \E r \in DOMAIN reqs : CallToolArrives(r)
    \/ \E r \in DOMAIN reqs : CallSettles(r)
    \/ \E r \in DOMAIN reqs : OtherArrives(r)

Next ==
    \/ Lifecycle
    \/ Arrivals
    \/ \E r \in DOMAIN reqs : SearchSettles(r, CoreResponses)

Spec == Init /\ [][Next]_vars

\* The search operation against every answer of the service, for a
\* configuration file that declares at most one backend.
InitSearch == Init /\ Len(backends) <= 1

NextSearch ==
    \/ Lifecycle
    \/ Arrivals
    \/ \E r \in DOMAIN reqs : SearchSettles(r, SearchResponses)

SpecSearch == InitSearch /\ [][NextSearch]_vars

\* The ToolCache used directly, next to the program's own use of it: any
\* caller may register a list of tools under a backend name, or clear.
ToolLists == SeqsUpTo(ToolNames, MaxTools)

RegisterTools ==
    /\ ~exited
    /\ \E serverName \in ServerNames : \E names \in ToolLists :
          tools' = addFromServer(tools, serverName,
                       ToToolDefinitions([k \in 1..Len(names) |-> RawTool(names[k])]))
    /\ UNCHANGED <<backends, config, pc, idx, clients, conns, handlers, reqs, exited>>

ClearCache ==
    /\ ~exited
    /\ tools' = clear(tools)
    /\ UNCHANGED <<backends, config, pc, idx, clients, conns, handlers, reqs, exited>>

NextCache ==
    \/ Lifecycle
    \/ RegisterTools
    \/ ClearCache

SpecCache == InitSearch /\ [][NextCache]_vars

\* Requests handled concurrently: the handler is entered for a new request
\* while earlier ones are suspended at an await; for a configuration file
\* that declares no backend, or the backend a alone.
MaxConcurrent == 2

InitConcurrent ==
    /\ backends \in { c \in Configs : Len(c) = 0 \/ (Len(c) = 1 /\ c[1].name = <<"a">>) }
    /\ config = <<>>
    /\ pc = "load"
    /\ idx = 0
    /\ tools = <<>>
    /\ clients = <<>>
    /\ conns = [i \in 1..Len(backends) |-> NoConn]
    /\ handlers = [s \in Signals |-> IdleHandler]
    /\ reqs = [r \in 1..MaxConcurrent |-> NewRequest]
    /\ exited = FALSE

SpecConcurrent == InitConcurrent /\ [][Next]_vars

\* Startup and shutdown alone.  The configuration read settles, and so does
\* every awaited connect and listTools (each connection attempt eventually
\* succeeds or fails); the event loop then runs the continuation.
FairStartup ==
    /\ WF_vars(LoadConfig \/ LoadConfigFails)
    /\ WF_vars(ConnectSettles)
    /\ WF_vars(ListToolsSettles)
    /\ WF_vars(StartServer)

SpecStartup == Init /\ [][Lifecycle]_vars /\ FairStartup

\* ================================================================ claims
\* the unique identifier as the specification writes it
UniqueId(b, t) == b \o <<"_", "_">> \o t

NoCloseInvoked == \A s \in Signals : handlers[s].pc = "idle"
InitializeOver == pc \in {"start", "serving"}

\* the request of slot r is an invoke that names the tool identifier id
IsInvokeOf(request, id) ==
    /\ request.name = "call_tool"
    /\ ~IsAbsent(request.args)
    /\ Val(request.args).tool_name = Some(id)
    /\ id # <<>>

\* a request has just arrived in slot r (the handler ran to its first await)
Arrived(r) == Free(r) /\ reqs'[r] # reqs[r]

OutText(request) == Val(request.out).content[1].text

\* ---------------------------------------------------------------- C1
\* C1: for every backend identifier b and original tool name t, immediately
\* after register(b, defs) with t among defs, resolveRoute(b + "__" + t)
\* returns exactly (b, t).
C1_RegisterThenResolve ==
    [][ (pc = "list" /\ <<pc, idx>>' # <<pc, idx>> /\ backends[idx].outcome = "ok")
        => \A k \in 1..Len(backends[idx].tools) :
              getRoute(tools', UniqueId(config[idx].name, backends[idx].tools[k]))
                  = Some([server |-> config[idx].name, tool |-> backends[idx].tools[k]]) ]_vars

\* a backend has registered two tools and both resolve to it
C1_Witness ==
    \E i \in 1..Len(config) :
        /\ MapHas(clients, config[i].name)
        /\ Len(backends[i].tools) = 2
        /\ \A k \in 1..2 :
              getRoute(tools, UniqueId(config[i].name, backends[i].tools[k]))
                  = Some([server |-> config[i].name, tool |-> backends[i].tools[k]])

\* ---------------------------------------------------------------- C2
\* C2: invoke with a non-empty toolId that is not a key of the cache returns
\* an error result whose text contains the literal toolId, and no call is
\* dispatched on any connection, whatever the state of the pool.
C2_UnknownToolNoDispatch ==
    \A r \in Slots : \A id \in InvokeNames :
        (IsInvokeOf(reqs[r], id) /\ id \notin MapKeys(tools))
        => /\ reqs[r].pc = "done"
           /\ reqs[r].calls = <<>>
           /\ Val(reqs[r].out).isError
           /\ DOMAIN OutText(reqs[r]) = {"plain"}
           /\ Contains(OutText(reqs[r]).plain, id)

\* the bare name of a cached tool was refused while the pool held a connection
C2_Witness ==
    \E r \in Slots :
        /\ IsInvokeOf(reqs[r], <<"x">>)
        /\ reqs[r].pc = "done"
        /\ Val(reqs[r].out).isError
        /\ MapHas(tools, UniqueId(<<"a">>, <<"x">>))
        /\ clients # <<>>

\* ---------------------------------------------------------------- C3
\* what invoke sends for the cache entry of id when its backend is in the pool
ExpectedCall(id, arguments) ==
    [ conn      |-> MapGet(clients, MapGet(tools, id).serverName),
      name      |-> MapGet(tools, id).originalName,
      arguments |-> IF IsAbsent(arguments) THEN {} ELSE Val(arguments) ]

C3_DispatchStep(r) ==
    \A id \in InvokeNames :
        (/\ Arrived(r)
         /\ IsInvokeOf(reqs'[r], id)
         /\ MapHas(tools, id)
         /\ MapHas(clients, MapGet(tools, id).serverName))
        => /\ reqs'[r].pc = "calling"
           /\ reqs'[r].calls = <<ExpectedCall(id, Val(reqs'[r].args).arguments)>>
           /\ config[reqs'[r].calls[1].conn].name = MapGet(tools, id).serverName
           /\ \A q \in Slots \ {r} : reqs'[q] = reqs[q]

C3_OneCallPerInvoke ==
    \A r \in Slots :
        /\ Len(reqs[r].calls) <= 1
        /\ (reqs[r].pc = "calling" \/ (reqs[r].name = "call_tool" /\ ~IsAbsent(reqs[r].reply)))
           => Len(reqs[r].calls) = 1

\* C3 as written: exactly one call, on backend b's connection, with the
\* original name and the arguments (or {}), and the operation's output is the
\* backend's result itself.
C3_OutputIsBackendResult ==
    \A r \in Slots :
        /\ Len(reqs[r].calls) <= 1
        /\ (reqs[r].name = "call_tool" /\ reqs[r].pc = "done" /\ ~IsAbsent(reqs[r].reply))
           => /\ Len(reqs[r].calls) = 1
              /\ Val(reqs[r].out).isError = Val(reqs[r].reply).isError
              /\ Val(reqs[r].out).content = Val(reqs[r].reply).content

\* C3 (amended): for every invoke of a cached toolId with route (b, t) whose
\* backend b is in the pool, exactly one tool call is dispatched, on b's
\* connection and on no other, with name t and with the arguments given, or
\* {} when absent; the operation's output is a non-error result whose single
\* text block is the JSON serialization of the backend's result, unmodified.
C3_DispatchAndSerialize ==
    /\ [](C3_OneCallPerInvoke
          /\ \A r \in Slots :
                (reqs[r].name = "call_tool" /\ reqs[r].pc = "done" /\ ~IsAbsent(reqs[r].reply))
                => Val(reqs[r].out) =
                      [ content |-> <<[type |-> "text",
                                       text |-> [json |-> Val(reqs[r].reply)]]>>,
                        isError |-> FALSE ])
    /\ [][\A r \in Slots : C3_DispatchStep(r)]_vars

\* an invoke without arguments was dispatched with {} and the backend's
\* error result came back inside a non-error text block
C3_Witness ==
    \E r \in Slots :
        /\ IsInvokeOf(reqs[r], UniqueId(<<"a">>, <<"x">>))
        /\ IsAbsent(Val(reqs[r].args).arguments)
        /\ reqs[r].pc = "done"
        /\ ~IsAbsent(reqs[r].reply)
        /\ Val(reqs[r].reply).isError
        /\ reqs[r].calls = <<[conn |-> 1, name |-> <<"x">>, arguments |-> {}]>>
        /\ ~Val(reqs[r].out).isError

\* ---------------------------------------------------------------- C4
\* a backend declared after entry i connects and registers the same identifier
RegisteredAgainLater(i, id) ==
    \E j \in (i + 1)..Len(config) :
        /\ backends[j].outcome = "ok"
        /\ \E m \in 1..Len(backends[j].tools) : UniqueId(config[j].name, backends[j].tools[m]) = id

\* C4: a backend whose connection attempt (open or tool enumeration) fails
\* does not prevent any other backend from being attempted: once initialize
\* is over (and no shutdown has begun), every configured backend that can
\* connect, wherever it stands among failing ones, has a live connection in
\* the pool, and each of its tools is among allDefinitions() and resolves to
\* a backend of the pool: to this backend and this tool, unless a backend
\* declared later registered the same identifier.
C4_FailureIsolation ==
    (InitializeOver /\ NoCloseInvoked)
    => \A i \in 1..Len(config) :
          backends[i].outcome = "ok"
          => /\ MapHas(clients, config[i].name)
             /\ MapGet(clients, config[i].name) = i
             /\ conns[i].state = "open"
             /\ \A k \in 1..Len(backends[i].tools) :
                   LET id == UniqueId(config[i].name, backends[i].tools[k])
                   IN  /\ \E d \in 1..Len(getAllDefinitions(tools)) :
                             getAllDefinitions(tools)[d].name = id
                       /\ ~IsAbsent(getRoute(tools, id))
                       /\ MapHas(clients, Val(getRoute(tools, id)).server)
                       /\ ~RegisteredAgainLater(i, id)
                          => getRoute(tools, id)
                                = Some([server |-> config[i].name, tool |-> backends[i].tools[k]])

\* the first declared backend failed, the second connected with two tools
C4_Witness ==
    /\ InitializeOver /\ NoCloseInvoked
    /\ Len(config) = 2
    /\ backends[1].outcome # "ok"
    /\ backends[2].outcome = "ok"
    /\ Len(backends[2].tools) = 2
    /\ size(tools) = 2
    /\ MapKeySeq(clients) = <<config[2].name>>

\* ---------------------------------------------------------------- C5
IsBackendNotFound(out, serverName) ==
    /\ out.isError
    /\ DOMAIN out.content[1].text = {"plain"}
    /\ Contains(out.content[1].text.plain, <<"Backend server not found: ">> \o serverName)

\* C5: after close() has returned, route(b, t, args) fails for every backend
\* identifier b, and every invoke of a tool identifier that was valid before
\* close yields an error result carrying "backend not found", with no call
\* dispatched on any connection.
C5_AfterClose ==
    /\ [](closeReturned
          => \A b \in ServerNames : \A t \in ToolNames :
                /\ callTool(NewRequest, b, t, {}).calls = <<>>
                /\ callTool(NewRequest, b, t, {}).pc = "done"
                /\ IsBackendNotFound(Val(callTool(NewRequest, b, t, {}).out), b))
    /\ [][\A r \in Slots : \A id \in InvokeNames :
            (closeReturned /\ Arrived(r) /\ IsInvokeOf(reqs'[r], id) /\ MapHas(tools, id))
            => /\ reqs'[r].pc = "done"
               /\ reqs'[r].calls = <<>>
               /\ IsBackendNotFound(Val(reqs'[r].out), MapGet(tools, id).serverName)]_vars

\* a connection was closed, close() returned, and an invoke of a cached tool
\* was then answered "backend not found"
C5_Witness ==
    /\ closeReturned
    /\ \E i \in 1..Len(conns) : conns[i].state = "closed"
    /\ \E r \in Slots :
          /\ IsInvokeOf(reqs[r], UniqueId(<<"a">>, <<"x">>))
          /\ MapHas(tools, UniqueId(<<"a">>, <<"x">>))
          /\ reqs[r].pc = "done"
          /\ reqs[r].calls = <<>>
          /\ IsBackendNotFound(Val(reqs[r].out), <<"a">>)

\* ---------------------------------------------------------------- C6
\* the request of slot r is a discover with a non-empty query
IsDiscover(request) ==
    /\ request.name = "search_tools"
    /\ ~IsAbsent(request.args)
    /\ ~IsAbsent(Val(request.args).query)
    /\ Val(Val(request.args).query) # <<>>

\* C6: discover (with a query) on an empty cache returns a non-error payload
\* containing tool_references: [] and an error field, never throws, and does
\* not invoke the external search capability.
C6_EmptyCacheDiscover ==
    \A r \in Slots :
        (IsDiscover(reqs[r]) /\ size(tools) = 0)
        => /\ reqs[r].pc = "done"
           /\ reqs[r].searches = <<>>
           /\ ~Val(reqs[r].out).isError
           /\ DOMAIN OutText(reqs[r]) = {"json"}
           /\ "error" \in DOMAIN OutText(reqs[r]).json
           /\ OutText(reqs[r]).json.tool_references = <<>>

\* every declared backend failed and a discover was answered
C6_Witness ==
    /\ Len(config) = 2 /\ size(tools) = 0
    /\ \E r \in Slots : IsDiscover(reqs[r]) /\ reqs[r].pc = "done" /\ ~Val(reqs[r].out).isError

\* ---------------------------------------------------------------- C7
\* the tool names of one block's references, as the service sent them
NamesOfBlock(block) ==
    IF block.type = "tool_search_tool_result" /\ ~IsAbsent(block.content)
    THEN [i \in 1..Len(Val(block.content).tool_references) |->
             Val(block.content).tool_references[i].tool_name]
    ELSE <<>>

RECURSIVE NamesInOrder(_)
NamesInOrder(blocks) ==
    IF blocks = <<>> THEN <<>> ELSE NamesOfBlock(Head(blocks)) \o NamesInOrder(Tail(blocks))

FirstN(seq, m) == SubSeq(seq, 1, IF m < Len(seq) THEN m ELSE Len(seq))
IsNamed(n) == n # <<>>

\* discover got a response with content, for a positive max_results
DiscoverAnswered(request) ==
    /\ IsDiscover(request)
    /\ request.pc = "done"
    /\ ~IsAbsent(request.reply)
    /\ ~IsAbsent(Val(request.reply).content)
    /\ ~IsAbsent(Val(request.args).max_results)
    /\ Val(Val(request.args).max_results) >= 1

\* C7 as written: tool_references is the first min(m, n) tool names of the
\* concatenation, in block order, of the search-result blocks' references.
C7_FirstOfAllReferences ==
    \A r \in Slots :
        DiscoverAnswered(reqs[r])
        => /\ ~Val(reqs[r].out).isError
           /\ OutText(reqs[r]).json.tool_references =
                 FirstN(NamesInOrder(Val(Val(reqs[r].reply).content)),
                        Val(Val(reqs[r].args).max_results))

\* C7 (amended): tool_references is the first min(m, n) of the non-empty tool
\* names of the concatenation, in block order, of the search-result blocks'
\* references (n counting those names only), in the original order; a
\* reference whose tool_name is missing or empty is skipped, and blocks of
\* other types contribute nothing.
C7_FirstOfNamedReferences ==
    \A r \in Slots :
        DiscoverAnswered(reqs[r])
        => /\ ~Val(reqs[r].out).isError
           /\ OutText(reqs[r]).json.tool_references =
                 FirstN(SelectSeq(NamesInOrder(Val(Val(reqs[r].reply).content)), IsNamed),
                        Val(Val(reqs[r].args).max_results))

\* two search-result blocks with three references, max_results 2: the first
\* block's reference, then the second block's first
C7_Witness ==
    \E r \in Slots :
        /\ DiscoverAnswered(reqs[r])
        /\ Val(Val(reqs[r].args).max_results) = 2
        /\ Val(Val(reqs[r].reply).content)
              = <<SearchResult(<<UniqueId(<<"a">>, <<"x">>)>>),
                  SearchResult(<<<<"z">>, UniqueId(<<"a">>, <<"x">>)>>)>>
        /\ OutText(reqs[r]).json.tool_references = <<UniqueId(<<"a">>, <<"x">>), <<"z">>>>

\* ---------------------------------------------------------------- C8
\* C8: every internal failure raised while handling a discover or invoke
\* request (external search failure, malformed search response,
\* backend-not-found, backend call failure, absent argument object) ends as
\* an error result of the handler: no request ends by an exception leaving
\* the handler, and the handler can serve the next request.
C8_FailuresBecomeErrorResults ==
    \A r \in Slots :
        /\ reqs[r].pc \in {"new", "searching", "calling", "done"}
        /\ reqs[r].pc = "done" => ~IsAbsent(reqs[r].out)
        /\ (reqs[r].name \in {"search_tools", "call_tool"} /\ IsAbsent(reqs[r].args))
           => reqs[r].pc = "done" /\ Val(reqs[r].out).isError
        /\ (reqs[r].searches # <<>> /\ reqs[r].pc # "searching" /\ IsAbsent(reqs[r].reply))
           => /\ reqs[r].pc = "done" /\ Val(reqs[r].out).isError
              /\ Contains(OutText(reqs[r]).plain, <<"search service failure">>)
        /\ (reqs[r].name = "search_tools" /\ ~IsAbsent(reqs[r].reply)
              /\ IsAbsent(Val(reqs[r].reply).content))
           => reqs[r].pc = "done" /\ Val(reqs[r].out).isError
        /\ (reqs[r].calls # <<>> /\ reqs[r].pc # "calling" /\ IsAbsent(reqs[r].reply))
           => /\ reqs[r].pc = "done" /\ Val(reqs[r].out).isError
              /\ Contains(OutText(reqs[r]).plain, <<"backend call failure">>)
        /\ \A id \in InvokeNames :
              (IsInvokeOf(reqs[r], id) /\ MapHas(tools, id) /\ reqs[r].calls = <<>>)
              => reqs[r].pc = "done" /\ IsBackendNotFound(Val(reqs[r].out), MapGet(tools, id).serverName)
        /\ (Serving /\ reqs[r].pc # "new" /\ reqs[r].pc # "searching" /\ reqs[r].pc # "calling")
           => ENABLED SearchToolsArrives(r) /\ ENABLED CallToolArrives(r)

\* a search response without content was answered by an error result
C8_Witness ==
    \E r \in Slots :
        /\ reqs[r].name = "search_tools"
        /\ reqs[r].reply = Some([content |-> Absent])
        /\ reqs[r].pc = "done"
        /\ Val(reqs[r].out).isError

\* ---------------------------------------------------------------- C9
\* C9: discover with an absent or empty query returns an input-validation
\* error result without invoking the external search capability, and invoke
\* with an absent toolId returns an input-validation error result without
\* dispatching to any backend, whatever the cache holds (the empty-cache and
\* unknown-tool outcomes come second).  Without any argument object the
\* error result is the one of C8.
C9_ValidationFirst ==
    \A r \in Slots :
        /\ (reqs[r].name = "search_tools"
              /\ (IsAbsent(reqs[r].args) \/ Falsy(Val(reqs[r].args).query)))
           => /\ reqs[r].pc = "done"
              /\ reqs[r].searches = <<>>
              /\ Val(reqs[r].out).isError
              /\ ~IsAbsent(reqs[r].args)
                 => OutText(reqs[r]) = [plain |-> <<"Error: query parameter is required">>]
        /\ (reqs[r].name = "call_tool"
              /\ (IsAbsent(reqs[r].args) \/ IsAbsent(Val(reqs[r].args).tool_name)))
           => /\ reqs[r].pc = "done"
              /\ reqs[r].calls = <<>>
              /\ Val(reqs[r].out).isError
              /\ ~IsAbsent(reqs[r].args)
                 => OutText(reqs[r]) = [plain |-> <<"Error: tool_name parameter is required">>]

\* an empty query on an empty cache was refused as invalid
C9_Witness ==
    \E r \in Slots :
        /\ reqs[r].name = "search_tools"
        /\ ~IsAbsent(reqs[r].args)
        /\ Val(reqs[r].args).query = Some(<<>>)
        /\ size(tools) = 0
        /\ reqs[r].pc = "done"
        /\ OutText(reqs[r]) = [plain |-> <<"Error: query parameter is required">>]

\* ---------------------------------------------------------------- C10
AllConnect ==
    /\ Len(config) = Len(backends)
    /\ \A i \in 1..Len(backends) : backends[i].outcome = "ok"

ExposedIds ==
    { UniqueId(backends[i].name, t) : <<i, t>> \in
        { <<i, backends[i].tools[k]>> : <<i, k>> \in
            { <<i, k>> \in (1..Len(backends)) \X (1..MaxTools) : k <= Len(backends[i].tools) } } }

\* C10: after initialize over backends that all connect, the set of cache
\* identifiers is exactly { b + "__" + t : backend b exposes tool t }, and
\* resolveRoute(id) is found if and only if id is in that set; a bare
\* original name that is not itself such an identifier is not resolvable.
C10_IdentifierSet ==
    (InitializeOver /\ AllConnect)
    => /\ Range(getToolNames(tools)) = ExposedIds
       /\ size(tools) = Cardinality(ExposedIds)
       /\ \A id \in ExposedIds \cup ToolNames \cup ServerNames \cup InvokeNames :
             ~IsAbsent(getRoute(tools, id)) <=> id \in ExposedIds
       /\ \A id \in ExposedIds : Val(getRoute(tools, id)).server \o <<"_", "_">> \o Val(getRoute(tools, id)).tool = id

\* two backends, three identifiers; the second backend's tool resolves to it
\* and the bare name x does not resolve
C10_Witness ==
    /\ InitializeOver /\ AllConnect
    /\ Len(config) = 2
    /\ size(tools) = 3
    /\ <<"x">> \in Range(backends[1].tools)
    /\ getRoute(tools, UniqueId(config[2].name, backends[2].tools[1]))
          = Some([server |-> config[2].name, tool |-> backends[2].tools[1]])
    /\ IsAbsent(getRoute(tools, <<"x">>))

\* ---------------------------------------------------------------- C11
\* the step in which connectServer registers the tools of backend idx
Registers == pc = "list" /\ <<pc, idx>>' # <<pc, idx>> /\ backends[idx].outcome = "ok"

\* the identifiers computed for the tools of declared backend i
IdsOf(i) == { UniqueId(config[i].name, backends[i].tools[k]) : k \in 1..Len(backends[i].tools) }

\* the definition a backend's listed tool is registered with, under identifier id
DefinitionAs(id, t) ==
    [ name         |-> id,
      description  |-> IF IsAbsent(RawTool(t).description) THEN <<>> ELSE Val(RawTool(t).description),
      input_schema |-> IF IsAbsent(RawTool(t).inputSchema) THEN "empty_object_schema"
                       ELSE Val(RawTool(t).inputSchema) ]

\* C11: two registrations collide only when their computed unique identifiers
\* coincide (an entry whose identifier is not among those being registered is
\* left as it was); when an identifier is registered again the cache retains
\* only the latest registration: size() counts the identifier once, and
\* lookup / resolveRoute return the later registration's backend, original
\* name and definition.
C11_LatestRegistrationWins ==
    /\ [](Cardinality(MapKeys(tools)) = size(tools))
    /\ [][ Registers
           => /\ MapKeys(tools') = MapKeys(tools) \cup IdsOf(idx)
              /\ size(tools') = Cardinality(MapKeys(tools) \cup IdsOf(idx))
              /\ \A id \in MapKeys(tools) \ IdsOf(idx) : get(tools', id) = get(tools, id)
              /\ \A k \in 1..Len(backends[idx].tools) :
                    LET t  == backends[idx].tools[k]
                        id == UniqueId(config[idx].name, t)
                    IN  /\ get(tools', id) =
                              Some([ serverName   |-> config[idx].name,
                                     originalName |-> t,
                                     prefixedName |-> id,
                                     definition   |-> DefinitionAs(id, t) ])
                        /\ getRoute(tools', id) = Some([server |-> config[idx].name, tool |-> t]) ]_vars

\* backend a with tool b__x and backend a__b with tool x computed the same
\* identifier: one entry, held by the backend registered second
C11_Witness ==
    /\ Len(clients) = 2
    /\ size(tools) = 1
    /\ IdsOf(1) = IdsOf(2)
    /\ Val(get(tools, UniqueId(<<"a">>, <<"b", "_", "_", "x">>))).serverName = config[2].name
    /\ Val(get(tools, UniqueId(<<"a">>, <<"b", "_", "_", "x">>))).originalName = backends[2].tools[1]

\* ---------------------------------------------------------------- C12
\* C12: in every reachable state, after any sequence of register, clear,
\* initialize and close operations (registrations that overwrite an existing
\* identifier included), allDefinitions().length equals size(), the number
\* of distinct identifiers held.
C12_DefinitionsCountIsSize ==
    /\ Len(getAllDefinitions(tools)) = size(tools)
    /\ size(tools) = Cardinality(MapKeys(tools))

\* close() has returned and the cache holds three definitions, one of them
\* without description, after registrations beyond those of initialize
C12_Witness ==
    /\ closeReturned
    /\ size(tools) = 3
    /\ Len(getAllDefinitions(tools)) = 3
    /\ \E i \in 1..3 : ~HasDescription(getAllDefinitions(tools)[i])

\* ---------------------------------------------------------------- C13
\* C13: provided every connection attempt eventually succeeds or fails,
\* startup reaches the serving state (the upstream-facing server is started)
\* unless a shutdown signal arrives first: a missing or malformed
\* configuration file, or the failure of any subset of backends, all of them
\* included, leaves the proxy running with fewer or zero tools, and the
\* process ends only through a shutdown signal.
C13_StartupReachesServing ==
    /\ <>(pc = "serving" \/ ~NoCloseInvoked)
    /\ [](exited => ~NoCloseInvoked)
    /\ [](config = <<>> /\ pc \in {"start", "serving"} => tools = <<>> /\ clients = <<>>)

\* serving with no tool after both declared backends failed
C13_Witness ==
    /\ pc = "serving" /\ ~exited /\ NoCloseInvoked
    /\ Len(config) = 2
    /\ \A i \in 1..2 : backends[i].outcome # "ok"
    /\ size(tools) = 0

\* ---------------------------------------------------------------- C14
\* C14: teardown is idempotent: when close() is called twice, one call after
\* the other or the second starting while the first still awaits a
\* connection's close (SIGINT followed by SIGTERM), neither call raises, the
\* pool ends with no live connections, and each live connection's close is
\* invoked exactly once.
C14_EachConnectionClosedOnce ==
    /\ \A s \in Signals : handlers[s].pc \in {"idle", "closing", "returned"}
    /\ closeReturned
       => /\ clients = <<>>
          /\ \A i \in 1..Len(conns) : conns[i].state = "closed" => conns[i].closeCalls = 1
    /\ \A i \in 1..Len(conns) : conns[i].closeCalls <= 1

\* ---------------------------------------------------------------- C15
\* close() of handler s returns in this step
CloseReturns(s) == handlers[s].pc # "returned" /\ handlers'[s].pc = "returned"

\* C15: close() is best-effort: a connection whose close fails does not keep
\* close from being attempted on every other connection of the pool, the
\* failure does not leave close() (it returns to its caller), and when
\* close() returns the connection set is empty: connectedBackends() is empty.
C15_CloseBestEffort ==
    /\ [](\A s \in Signals : handlers[s].pc \in {"idle", "closing", "returned"})
    /\ [](closeReturned => getConnectedServers(clients) = <<>>)
    /\ [][\A s \in Signals :
            CloseReturns(s)
            => /\ clients' = <<>>
               /\ \A p \in 1..Len(clients) : conns'[clients[p].value].closeCalls >= 1]_vars
    /\ [][\A s \in Signals :
            (handlers[s].pc = "closing" /\ handlers'[s].caught > handlers[s].caught)
            => \/ CloseReturns(s) /\ handlers[s].pos = Len(clients)
               \/ /\ handlers'[s].pc = "closing"
                  /\ handlers'[s].pos = handlers[s].pos + 1
                  /\ conns'[clients[handlers'[s].pos].value].closeCalls
                        = conns[clients[handlers'[s].pos].value].closeCalls + 1]_vars

\* both connections' closes failed, each was attempted, and close() returned
\* with an empty pool
C15_Witness ==
    \E s \in Signals :
        /\ handlers[s].pc = "returned"
        /\ handlers[s].caught = 2
        /\ Len(conns) = 2
        /\ \A i \in 1..2 : conns[i].closeCalls = 1
        /\ getConnectedServers(clients) = <<>>

\* ---------------------------------------------------------------- C16
\* C16: in every reachable state before close() is first invoked, the states
\* between the awaits of initialize included, every cache entry's owning
\* backend has a live connection in the pool, and every backend of the pool
\* has had its tools registered: a backend becomes visible in the cache and
\* in the pool in one step, and a backend whose connect or tool enumeration
\* failed contributes neither cache entries nor a pool entry.
C16_CacheAndPoolTogether ==
    /\ [](NoCloseInvoked
          => /\ \A e \in 1..Len(tools) :
                   /\ MapHas(clients, tools[e].value.serverName)
                   /\ conns[MapGet(clients, tools[e].value.serverName)].state = "open"
             /\ \A p \in 1..Len(clients) :
                   /\ config[clients[p].value].name = clients[p].key
                   /\ IdsOf(clients[p].value) \subseteq MapKeys(tools)
             /\ \A i \in 1..Len(config) :
                   backends[i].outcome # "ok"
                   => /\ ~MapHas(clients, config[i].name)
                      /\ \A e \in 1..Len(tools) : tools[e].value.serverName # config[i].name)
    /\ [][(NoCloseInvoked /\ tools' # tools) => Len(clients') = Len(clients) + 1]_vars

\* between two awaits of initialize: the first backend is in the cache and
\* in the pool, the second has opened a connection and its tool enumeration
\* is about to fail
C16_Witness ==
    /\ NoCloseInvoked
    /\ pc = "list" /\ idx = 2
    /\ backends[1].outcome = "ok" /\ Len(backends[1].tools) = 2
    /\ backends[2].outcome = "list_fails"
    /\ conns[2].state = "open"
    /\ size(tools) = 2
    /\ getConnectedServers(clients) = <<config[1].name>>

\* ---------------------------------------------------------------- C17
\* discover got a response with content
DiscoverReturned(request) ==
    /\ IsDiscover(request)
    /\ request.pc = "done"
    /\ ~IsAbsent(request.reply)
    /\ ~IsAbsent(Val(request.reply).content)

\* C17: the number of references discover returns never exceeds the
\* max_results value the caller supplied, for every non-negative integer
\* value, 0 included; the default limit of 5 applies only when the caller
\* leaves max_results unspecified.
C17_AtMostMaxResults ==
    \A r \in Slots :
        DiscoverReturned(reqs[r])
        => Len(OutText(reqs[r]).json.tool_references)
              <= (IF IsAbsent(Val(reqs[r].args).max_results) THEN DefaultMaxResults
                  ELSE Val(Val(reqs[r].args).max_results))

\* ---------------------------------------------------------------- C18
\* when the registration held by cache entry e was made: the declared
\* backend's position, then the tool's position in that backend's list
RegisteredAt(e) ==
    LET i == CHOOSE j \in 1..Len(config) : config[j].name = tools[e].value.serverName
        k == CHOOSE m \in 1..Len(backends[i].tools) :
                 backends[i].tools[m] = tools[e].value.originalName
    IN  i * (MaxTools + 1) + k

\* C18 as written: allDefinitions() is in registration order: a definition
\* registered later comes after every definition registered earlier, also
\* when the later registration overwrote an identifier of an earlier backend.
C18_RegistrationOrder ==
    /\ \A e \in 1..Len(tools) : getAllDefinitions(tools)[e] = tools[e].value.definition
    /\ \A e1, e2 \in 1..Len(tools) : e1 < e2 => RegisteredAt(e1) < RegisteredAt(e2)

IsNewId(id) == id \notin MapKeys(tools)
DefinitionNames(cache) == [e \in 1..Len(cache) |-> getAllDefinitions(cache)[e].name]

\* C18 (amended): allDefinitions() lists the definitions in the order in
\* which their identifiers were first registered: a registration under a new
\* identifier comes after every definition already there, in the order of
\* the backend's tool list, and a registration that overwrites an identifier
\* puts its definition at the place of the one it replaces.
C18_FirstRegistrationOrder ==
    /\ [](DefinitionNames(tools) = getToolNames(tools))
    /\ [][ Registers
           => /\ DefinitionNames(tools')
                    = DefinitionNames(tools)
                      \o SelectSeq([k \in 1..Len(backends[idx].tools) |->
                                       UniqueId(config[idx].name, backends[idx].tools[k])],
                                   IsNewId)
              /\ \A e \in 1..Len(tools) :
                    tools[e].key \in IdsOf(idx)
                    => tools'[e].value.serverName = config[idx].name ]_vars

\* the second backend's only tool overwrote the first backend's first
\* identifier: its definition stands before the first backend's other one
C18_Witness ==
    /\ Len(clients) = 2
    /\ size(tools) = 2
    /\ tools[1].value.serverName = config[2].name
    /\ tools[2].value.serverName = config[1].name
    /\ getAllDefinitions(tools)[1].name = UniqueId(config[2].name, backends[2].tools[1])

\* ---------------------------------------------------------------- C19
\* the attempt for declared backend i is over: it failed, or i is in the pool
AttemptOver(i, cl) == backends[i].outcome # "ok" \/ MapHas(cl, config[i].name)

\* C19: initialize attempts each configured backend exactly once, one at a
\* time in declaration order: attempt i + 1 starts only when attempt i has
\* succeeded or failed, and once the last attempt is over none is started
\* again; a backend whose attempt failed is never in the pool and none of
\* its tools is ever in the cache, for the rest of the process.
C19_OneAttemptEachInOrder ==
    /\ [][ idx' # idx
           => \/ /\ idx' = idx + 1 /\ idx' <= Len(config') /\ pc' = "connect"
                 /\ IF idx = 0 THEN pc = "load"
                    ELSE pc \in {"connect", "list"} /\ AttemptOver(idx, clients')
              \/ /\ idx' = 0 /\ idx = Len(config) /\ pc' = "start"
                 /\ AttemptOver(idx, clients') ]_vars
    /\ [][ (pc \in {"start", "serving"}) => (pc' \in {"start", "serving"} /\ idx' = 0) ]_vars
    /\ [](pc \in {"connect", "list"} <=> idx > 0)
    /\ [](\A i \in 1..Len(config) :
             backends[i].outcome # "ok"
             => /\ ~MapHas(clients, config[i].name)
                /\ \A e \in 1..Len(tools) : tools[e].value.serverName # config[i].name)

\* serving after two attempts that both failed, the first at tool
\* enumeration and the second at connect
C19_Witness ==
    /\ pc = "serving"
    /\ Len(config) = 2
    /\ backends[1].outcome = "list_fails" /\ conns[1].state = "open"
    /\ backends[2].outcome = "connect_fails" /\ conns[2].state = "none"
    /\ getConnectedServers(clients) = <<>>
    /\ getToolNames(tools) = <<>>

\* ---------------------------------------------------------------- C20
\* C20: discover and invoke, whatever their outcome (success, validation
\* error, unknown tool, caught internal failure) and however many are in
\* flight at once, leave the cache contents and the pool's connection set
\* unchanged; the cache changes only by a backend's registration during
\* initialize, which never removes an entry, and the connection set only by
\* that registration or by the clear() of close().
C20_RequestsLeaveCacheAndPool ==
    /\ [][ reqs' # reqs => (tools' = tools /\ clients' = clients) ]_vars
    /\ [][ tools' # tools
           => /\ Registers
              /\ MapKeys(tools) \subseteq MapKeys(tools') ]_vars
    /\ [][ clients' # clients
           => \/ Registers
              \/ clients' = <<>> /\ \E s \in Signals : CloseReturns(s) ]_vars

\* a discover and an invoke are both suspended at their await
C20_Witness ==
    /\ \E r1, r2 \in DOMAIN reqs :
          /\ reqs[r1].pc = "searching" /\ IsDiscover(reqs[r1])
          /\ reqs[r2].pc = "calling"
    /\ size(tools) = 2
    /\ Len(clients) = 1

\* ---------------------------------------------------------------- C21
\* connectServer is still running for declared backend i
AttemptInProgress(i) == pc = "list" /\ idx = i

\* C21: every connection that was successfully opened during initialize is
\* owned by the pool and is closed by close(): once the attempt that opened
\* it is over, an open connection is retained in the pool's connection set,
\* and no opened connection is left unclosed when close() has returned (in
\* particular when the open succeeds and the tool enumeration then fails).
C21_OpenedConnectionsOwned ==
    /\ \A i \in 1..Len(conns) :
          (conns[i].state = "open" /\ ~AttemptInProgress(i) /\ NoCloseInvoked)
          => MapHas(clients, backends[i].name) /\ MapGet(clients, backends[i].name) = i
    /\ closeReturned
       => \A i \in 1..Len(conns) : ~AttemptInProgress(i) => conns[i].state # "open"

\* ---------------------------------------------------------------- C22
\* the handler of slot r sends a tool call on a connection in this step
Dispatches(r) == reqs[r].pc # "calling" /\ reqs'[r].pc = "calling"

\* C22: when an invoke interleaves with a close() in progress, no tool call
\* is dispatched on a connection whose close has already been invoked: from
\* the moment close() starts closing a backend's connection, route() for
\* that backend fails with "backend not found".
C22_NoDispatchOnClosedConnection ==
    [][\A r \in DOMAIN reqs :
          Dispatches(r) => conns[reqs'[r].calls[1].conn].closeCalls = 0]_vars
====
